---- MODULE Spec2Model ----
(***************************************************************************)
(* Model of fim.py: syntax-aware Fill-in-the-Middle.                       *)
(*                                                                         *)
(*   get_fim_token_ids         resolves the four sentinel ids              *)
(*   get_prefix_middle_suffix  picks one eligible annotation span and      *)
(*                             carves the sample into prefix/middle/suffix *)
(*   permute                   decides FIM or passthrough, encodes the     *)
(*                             three texts and assembles PSM or SPM        *)
(*                                                                         *)
(* Text (bytes and str alike: the alphabet is ASCII, so the UTF-8 code     *)
(* units are the characters) is a sequence of one-character strings.       *)
(* Token sequences are sequences of integers.  Byte offsets are 0-based    *)
(* and ranges are half-open, as in the source.                             *)
(***************************************************************************)
EXTENDS Integers, Sequences, FiniteSets, TLC

VARIABLES
    vocab,               \* tokenizer.vocab restricted to the sentinel names
    tok_ids,             \* result of get_fim_token_ids (<<>> before the call)
    sample,              \* permute's input: the token sequence
    tree,                \* the nodes PARSER.parse yields for the decoded sample
    fim_rate, fim_spm_rate, strip_suffix_rate,
    pc,                  \* position inside permute
    decoded_bytes,
    captures_no_child,
    splittable_indices,
    random_pick_i,
    prefix_b, middle_b, suffix_b,
    suffix_src,          \* byte offsets of the sample that suffix_b was copied from
    strip,               \* outcome of the strip_suffix_rate draw
    prefix, middle, suffix,
    spm,                 \* outcome of the fim_spm_rate draw
    ret,                 \* what permute returns in place of list(new_sample)
    raised,              \* which collaborator raised, if any
    calls                \* collaborators permute has called

vars == <<vocab, tok_ids, sample, tree, fim_rate, fim_spm_rate,
          strip_suffix_rate, pc, decoded_bytes, captures_no_child,
          splittable_indices, random_pick_i, prefix_b, middle_b, suffix_b,
          suffix_src, strip, prefix, middle, suffix, spm, ret, raised, calls>>

----------------------------------------------------------------------------
(* Bounds *)

MaxSegs == 3    \* a sample is built from at most this many segments
MaxId == 4      \* sentinel ids of a vocabulary are drawn from 1..MaxId

----------------------------------------------------------------------------
(* Python values and helpers *)

None == -1

RECURSIVE Concat(_)
Concat(ss) == IF ss = <<>> THEN <<>> ELSE Head(ss) \o Concat(Tail(ss))

\* offsets a, a+1, ..., b-1 of the slice [a:b]; empty when b <= a
SliceOffsets(a, b) == [i \in 1..(IF b > a THEN b - a ELSE 0) |-> a + i - 1]

\* the bytes of s found at the given 0-based offsets
BytesAt(s, offs) == [i \in 1..Len(offs) |-> s[offs[i] + 1]]

\* s[a:b]
Slice(s, a, b) == BytesAt(s, SliceOffsets(a, b))

\* bytes.startswith
StartsWith(s, p) == Len(s) >= Len(p) /\ SubSeq(s, 1, Len(p)) = p

\* the `in` operator on text
Contains(s, p) ==
    \E i \in 0..(Len(s) - Len(p)) : Slice(s, i, i + Len(p)) = p

\* bytes.lstrip()
RECURSIVE LStrip(_)
LStrip(s) ==
    IF s # <<>> /\ Head(s) = " " THEN LStrip(Tail(s)) ELSE s

\* a slip that lets a draw come out either way at rate 0 or 1
BinomialLoose(p) == BOOLEAN

\* np_rng.binomial(1, p): the outcomes a draw with rate p percent can have
Binomial(p) == {d \in BOOLEAN : (d => p > 0) /\ (~d => p < 100)}

Rates == {0, 50, 100}

----------------------------------------------------------------------------
(* Tokenizer: a character vocabulary plus one merged token for " T" *)

CharId(c) ==
    CASE c = "x" -> 1 [] c = "y" -> 2 [] c = ":" -> 3 [] c = " " -> 4
      [] c = "T" -> 5 [] c = "/" -> 6 [] c = "?" -> 7 [] c = "-" -> 8
      [] c = "{" -> 9 [] c = "}" -> 10

MergedId == 11

TokenText(t) ==
    CASE t = 1 -> <<"x">> [] t = 2 -> <<"y">> [] t = 3 -> <<":">>
      [] t = 4 -> <<" ">> [] t = 5 -> <<"T">> [] t = 6 -> <<"/">>
      [] t = 7 -> <<"?">> [] t = 8 -> <<"-">> [] t = 9 -> <<"{">>
      [] t = 10 -> <<"}">> [] t = MergedId -> <<" ", "T">>

\* tokenizer.decode
Decode(toks) == Concat([i \in 1..Len(toks) |-> TokenText(toks[i])])

\* tokenizer.encode: greedy longest match
RECURSIVE Encode(_)
Encode(text) ==
    IF text = <<>> THEN <<>>
    ELSE IF StartsWith(text, <<" ", "T">>)
         THEN <<MergedId>> \o Encode(SubSeq(text, 3, Len(text)))
         ELSE <<CharId(Head(text))>> \o Encode(Tail(text))

----------------------------------------------------------------------------
(* get_fim_token_ids *)

FIM_SUFFIX == "<fim_suffix>"
FIM_PREFIX == "<fim_prefix>"
FIM_MIDDLE == "<fim_middle>"
FIM_PAD == "<fim_pad>"

FimNames == {FIM_SUFFIX, FIM_PREFIX, FIM_MIDDLE, FIM_PAD}

\* a slip that resolves each name on its own
GetFimTokenIdsPartial(v) ==
    [i \in 1..4 |->
        LET tok == <<FIM_SUFFIX, FIM_PREFIX, FIM_MIDDLE, FIM_PAD>>[i]
        IN IF tok \in DOMAIN v THEN v[tok] ELSE None]

\* the tuple (suffix_tok_id, prefix_tok_id, middle_tok_id, pad_tok_id)
GetFimTokenIds(v) ==
    IF \E tok \in {FIM_SUFFIX, FIM_PREFIX, FIM_MIDDLE, FIM_PAD} :
            tok \notin DOMAIN v
    THEN <<None, None, None, None>>       \* except KeyError
    ELSE <<v[FIM_SUFFIX], v[FIM_PREFIX], v[FIM_MIDDLE], v[FIM_PAD]>>

\* vocabularies: sentinel names present, each with an id of its own
Vocabs ==
    UNION {{v \in [D -> 1..MaxId] :
                \A a, b \in D : a # b => v[a] # v[b]} : D \in SUBSET FimNames}

\* the vocabulary of a tokenizer that has the FIM sentinels
FimVocab ==
    [n \in FimNames |->
        CASE n = FIM_SUFFIX -> 21 [] n = FIM_PREFIX -> 22
          [] n = FIM_MIDDLE -> 23 [] n = FIM_PAD -> 24]

----------------------------------------------------------------------------
(* Samples and their syntax trees *)

AnnotationKinds ==
    {"type_annotation", "opting_type_annotation", "omitting_type_annotation"}

\* Building blocks of a sample: a text and the nodes the parser finds in it,
\* in pre-order; s, e are offsets relative to the block, up is the parent's
\* position among the block's nodes (0: the root of the tree).
Catalog == <<
    \* plain code
    [text |-> <<"x">>, nodes |-> <<>>],
    \* code that reads like an annotation (c ? b : T)
    [text |-> <<":", " ", "T">>, nodes |-> <<>>],
    \* x: T
    [text |-> <<":", " ", "T">>,
     nodes |-> <<[type |-> "type_annotation", s |-> 0, e |-> 3, up |-> 0]>>],
    \* x: T, y:T
    [text |-> <<":", " ", "T", "y", ":", "T">>,
     nodes |-> <<[type |-> "type_annotation", s |-> 0, e |-> 3, up |-> 0],
                 [type |-> "type_annotation", s |-> 4, e |-> 6, up |-> 0]>>],
    \* x:{y?: T}
    [text |-> <<":", "{", "y", "?", ":", " ", "T", "}">>,
     nodes |-> <<[type |-> "type_annotation", s |-> 0, e |-> 8, up |-> 0],
                 [type |-> "object_type", s |-> 1, e |-> 8, up |-> 1],
                 [type |-> "opting_type_annotation", s |-> 3, e |-> 7,
                  up |-> 2]>>],
    \* x: // (an annotation whose text holds a URL marker)
    [text |-> <<":", "/", "/">>,
     nodes |-> <<[type |-> "type_annotation", s |-> 0, e |-> 3, up |-> 0]>>],
    \* x-?: T
    [text |-> <<"-", "?", ":", "T">>,
     nodes |-> <<[type |-> "omitting_type_annotation", s |-> 0, e |-> 4,
                  up |-> 0]>>]
>>

Programs == UNION {[1..n -> 1..Len(Catalog)] : n \in 0..MaxSegs}

RECURSIVE TextOf(_)
TextOf(ks) ==
    IF ks = <<>> THEN <<>> ELSE Catalog[Head(ks)].text \o TextOf(Tail(ks))

RECURSIVE NodesOf(_, _, _)
NodesOf(ks, off, nbase) ==
    IF ks = <<>> THEN <<>>
    ELSE LET seg == Catalog[Head(ks)]
         IN [j \in 1..Len(seg.nodes) |->
                [type |-> seg.nodes[j].type,
                 start_byte |-> seg.nodes[j].s + off,
                 end_byte |-> seg.nodes[j].e + off,
                 parent |-> IF seg.nodes[j].up = 0 THEN 1
                            ELSE nbase + seg.nodes[j].up]]
            \o NodesOf(Tail(ks), off + Len(seg.text), nbase + Len(seg.nodes))

\* PARSER.parse: node 1 is the root, parent 0 is Python's None
TreeOf(ks) ==
    <<[type |-> "program", start_byte |-> 0, end_byte |-> Len(TextOf(ks)),
       parent |-> 0]>> \o NodesOf(ks, 0, 1)

----------------------------------------------------------------------------
(* get_prefix_middle_suffix *)

RECURSIVE AncestorWalk(_, _)
AncestorWalk(tr, p) ==
    IF p = 0 THEN FALSE
    ELSE IF tr[p].type = "type_annotation"
            \/ tr[p].type = "opting_type_annotation"
            \/ tr[p].type = "omitting_type_annotation"
         THEN TRUE
         ELSE AncestorWalk(tr, tr[p].parent)

\* a slip that looks at the immediate parent only
IsChildTypeAnnotationParentOnly(tr, node) ==
    node.parent # 0 /\ tr[node.parent].type \in AnnotationKinds

\* Checks if any of the parent nodes is an annotation node.
IsChildTypeAnnotation(tr, node) == AncestorWalk(tr, node.parent)

ContainsUrl(smp, node) ==
    Contains(Slice(smp, node.start_byte, node.end_byte), <<"/", "/">>)

IsSplitable(tr, smp, node) ==
    ~IsChildTypeAnnotation(tr, node) /\ ~ContainsUrl(smp, node)

\* a slip that keeps nested annotations
IsCapturableNested(tr, smp, node) == ~ContainsUrl(smp, node)

IsCapturable(tr, smp, node) ==
    ~IsChildTypeAnnotation(tr, node) /\ ~ContainsUrl(smp, node)

\* QUERY.captures(tree.root_node): the annotation nodes, in pre-order
Captures(tr) == SelectSeq(tr, LAMBDA node : node.type \in AnnotationKinds)

CapturesNoChild(tr, smp) ==
    SelectSeq(Captures(tr), LAMBDA node : IsCapturable(tr, smp, node))

\* 0-based indices into captures_no_child
SplittableIndices(tr, smp, cnc) ==
    SelectSeq([i \in 1..Len(cnc) |-> i - 1],
              LAMBDA i : IsSplitable(tr, smp, cnc[i + 1]))

\* a slip that leaves the colon out of the prefix
PrefixNoColon(smp, node) == Slice(smp, 0, node.start_byte)

\* prefix_b once the leading colon of the middle has moved into it
PrefixOf(smp, node) ==
    LET pre == Slice(smp, 0, node.start_byte)
        mid == Slice(smp, node.start_byte, node.end_byte)
    IN IF StartsWith(mid, <<":">>) THEN pre \o <<":", " ">> ELSE pre

\* middle_b once its leading colon and the whitespace after it are gone
MiddleOf(smp, node) ==
    LET mid == Slice(smp, node.start_byte, node.end_byte)
    IN IF StartsWith(mid, <<":">>) THEN LStrip(Tail(mid)) ELSE mid

\* for i in range(k, l - 1): the gap between capture i and capture i + 1
RECURSIVE GapLoop(_, _, _)
GapLoop(cnc, i, l) ==
    IF i >= l - 1 THEN <<>>
    ELSE SliceOffsets(cnc[i + 1].end_byte, cnc[i + 2].start_byte)
         \o GapLoop(cnc, i + 1, l)

\* a slip that forgets the text after the last capture
StripOffsetsNoTail(cnc, k, n) == GapLoop(cnc, k, Len(cnc))

\* the offsets copied into suffix_b when the types are stripped
StripOffsets(cnc, k, n) ==
    GapLoop(cnc, k, Len(cnc)) \o SliceOffsets(cnc[Len(cnc)].end_byte, n)

\* the offsets copied into suffix_b when the types are kept
KeepOffsets(cnc, k, n) == SliceOffsets(cnc[k + 1].end_byte, n)

\* a slip that never strips
SuffixOffsetsKeep(d, cnc, k, n) == KeepOffsets(cnc, k, n)

SuffixOffsets(d, cnc, k, n) ==
    IF d THEN StripOffsets(cnc, k, n) ELSE KeepOffsets(cnc, k, n)

----------------------------------------------------------------------------
(* permute *)

Pending == [kind |-> "pending", tokens |-> <<>>]

\* return list(new_sample), np_rng
ReturnList(toks) == [kind |-> "list", tokens |-> toks]

\* return None, np_rng
ReturnNone == [kind |-> "None", tokens |-> <<>>]

\* a slip that hands the sample back when no span is eligible
OnNoSpanPassthrough(smp) == ReturnList(smp)

\* if res is None
OnNoSpan(smp) == ReturnNone

\* a slip that hands the sample back when the split raises
OnSplitExceptionPassthrough(smp) == ReturnList(smp)

\* except Exception as e
OnSplitException(smp) == ReturnNone

\* a slip that orders SPM as prefix, suffix, middle
SPMSwapped(ids, pre, mid, suf) ==
    <<ids[2], ids[1]>> \o pre \o <<ids[3]>> \o suf \o mid

\* SPM (variant 2 from FIM paper); ids is (suffix, prefix, middle, pad)
SPM(ids, pre, mid, suf) ==
    <<ids[2], ids[1]>> \o suf \o <<ids[3]>> \o pre \o mid

PSM(ids, pre, mid, suf) ==
    <<ids[2]>> \o pre \o <<ids[1]>> \o suf \o <<ids[3]>> \o mid

----------------------------------------------------------------------------
(* Initial states *)

Defaults ==
    /\ decoded_bytes = <<>>
    /\ captures_no_child = <<>>
    /\ splittable_indices = <<>>
    /\ random_pick_i = None
    /\ prefix_b = <<>>
    /\ middle_b = <<>>
    /\ suffix_b = <<>>
    /\ suffix_src = <<>>
    /\ strip = "none"
    /\ prefix = <<>>
    /\ middle = <<>>
    /\ suffix = <<>>
    /\ spm = "none"
    /\ ret = Pending
    /\ raised = "none"
    /\ calls = {}

\* permute is about to run on a tokenized sample
Init ==
    /\ vocab = FimVocab
    /\ tok_ids = GetFimTokenIds(FimVocab)
    /\ \E ks \in Programs :
        /\ sample = Encode(TextOf(ks))
        /\ tree = TreeOf(ks)
    /\ fim_rate \in Rates
    /\ fim_spm_rate \in Rates
    /\ strip_suffix_rate \in Rates
    /\ pc = "start"
    /\ Defaults

\* get_fim_token_ids is about to run on a tokenizer
InitIds ==
    /\ vocab \in Vocabs
    /\ tok_ids = <<>>
    /\ sample = <<>>
    /\ tree = TreeOf(<<>>)
    /\ fim_rate = 0
    /\ fim_spm_rate = 0
    /\ strip_suffix_rate = 0
    /\ pc = "ids"
    /\ Defaults

----------------------------------------------------------------------------
(* Actions *)

splitVars == <<captures_no_child, splittable_indices, random_pick_i,
               prefix_b, middle_b, suffix_b, suffix_src, strip>>
encVars == <<prefix, middle, suffix, spm>>
inputVars == <<vocab, tok_ids, sample, tree, fim_rate, fim_spm_rate,
               strip_suffix_rate>>

CallGetFimTokenIds ==
    /\ pc = "ids"
    /\ tok_ids' = GetFimTokenIds(vocab)
    /\ pc' = "resolved"
    /\ UNCHANGED <<vocab, sample, tree, fim_rate, fim_spm_rate,
                   strip_suffix_rate, decoded_bytes, splitVars, encVars,
                   ret, raised, calls>>

\* if np_rng.binomial(1, fim_rate): ... else: new_sample = sample
DrawFim ==
    /\ pc = "start"
    /\ \E d \in Binomial(fim_rate) :
        IF d
        THEN /\ pc' = "decode"
             /\ ret' = ret
        ELSE /\ pc' = "done"
             /\ ret' = ReturnList(sample)
    /\ UNCHANGED <<inputVars, decoded_bytes, splitVars, encVars, raised,
                   calls>>

\* decoded_bytes = tokenizer.decode(sample)
DecodeSample ==
    /\ pc = "decode"
    /\ decoded_bytes' = Decode(sample)
    /\ calls' = calls \cup {"decode"}
    /\ pc' = "parse"
    /\ UNCHANGED <<inputVars, splitVars, encVars, ret, raised>>

\* tokenizer.decode raises: the call is outside the try block
DecodeRaises ==
    /\ pc = "decode"
    /\ calls' = calls \cup {"decode"}
    /\ raised' = "decode"
    /\ pc' = "raised"
    /\ UNCHANGED <<inputVars, decoded_bytes, splitVars, encVars, ret>>

\* parse, query, filter; return None when nothing is splittable
FilterCaptures ==
    /\ pc = "parse"
    /\ calls' = calls \cup {"split"}
    /\ LET cnc == CapturesNoChild(tree, decoded_bytes)
           idx == SplittableIndices(tree, decoded_bytes, cnc)
       IN /\ captures_no_child' = cnc
          /\ splittable_indices' = idx
          /\ IF Len(idx) = 0
             THEN /\ ret' = OnNoSpan(sample)
                  /\ pc' = "done"
             ELSE /\ ret' = ret
                  /\ pc' = "pick"
    /\ UNCHANGED <<inputVars, decoded_bytes, random_pick_i, prefix_b,
                   middle_b, suffix_b, suffix_src, strip, encVars, raised>>

\* random_pick_i = np_rng.choice(splittable_indices); prefix_b, middle_b
PickSpan ==
    /\ pc = "pick"
    /\ \E j \in 1..Len(splittable_indices) :
        LET k == splittable_indices[j]
            node == captures_no_child[k + 1]
        IN /\ random_pick_i' = k
           /\ prefix_b' = PrefixOf(decoded_bytes, node)
           /\ middle_b' = MiddleOf(decoded_bytes, node)
    /\ pc' = "suffix"
    /\ UNCHANGED <<inputVars, decoded_bytes, captures_no_child,
                   splittable_indices, suffix_b, suffix_src, strip, encVars,
                   ret, raised, calls>>

\* if np_rng.binomial(1, strip_suffix_rate): ... else: ...
BuildSuffix ==
    /\ pc = "suffix"
    /\ \E d \in Binomial(strip_suffix_rate) :
        LET offs == SuffixOffsets(d, captures_no_child, random_pick_i,
                                  Len(decoded_bytes))
        IN /\ strip' = IF d THEN "strip" ELSE "keep"
           /\ suffix_src' = offs
           /\ suffix_b' = BytesAt(decoded_bytes, offs)
    /\ pc' = "encode"
    /\ UNCHANGED <<inputVars, decoded_bytes, captures_no_child,
                   splittable_indices, random_pick_i, prefix_b, middle_b,
                   encVars, ret, raised, calls>>

\* get_prefix_middle_suffix raises somewhere: caught, printed, None returned
SplitRaises ==
    /\ pc \in {"parse", "pick", "suffix"}
    /\ calls' = calls \cup {"split"}
    /\ raised' = "split"
    /\ ret' = OnSplitException(sample)
    /\ pc' = "done"
    /\ UNCHANGED <<inputVars, decoded_bytes, splitVars, encVars>>

\* three independent tokenizer.encode calls
EncodeParts ==
    /\ pc = "encode"
    /\ prefix' = Encode(prefix_b)
    /\ middle' = Encode(middle_b)
    /\ suffix' = Encode(suffix_b)
    /\ calls' = calls \cup {"encode"}
    /\ pc' = "assemble"
    /\ UNCHANGED <<inputVars, decoded_bytes, splitVars, spm, ret, raised>>

\* if np_rng.binomial(1, fim_spm_rate): SPM else: PSM; return list(new_sample)
Assemble ==
    /\ pc = "assemble"
    /\ \E d \in Binomial(fim_spm_rate) :
        /\ spm' = IF d THEN "spm" ELSE "psm"
        /\ ret' = ReturnList(IF d THEN SPM(tok_ids, prefix, middle, suffix)
                                  ELSE PSM(tok_ids, prefix, middle, suffix))
    /\ pc' = "done"
    /\ UNCHANGED <<inputVars, decoded_bytes, splitVars, prefix, middle,
                   suffix, raised, calls>>

Next ==
    \/ DrawFim
    \/ DecodeSample
    \/ DecodeRaises
    \/ FilterCaptures
    \/ PickSpan
    \/ BuildSuffix
    \/ SplitRaises
    \/ EncodeParts
    \/ Assemble

Spec == Init /\ [][Next]_vars

NextIds == CallGetFimTokenIds

SpecIds == InitIds /\ [][NextIds]_vars

----------------------------------------------------------------------------
(* Properties *)

\* get_prefix_middle_suffix has built captures_no_child
FilterRan ==
    \/ pc \in {"pick", "suffix", "encode", "assemble"}
    \/ pc = "done" /\ raised = "none" /\ "split" \in calls

\* get_prefix_middle_suffix has returned a triple
SplitReturned == strip # "none"

\* the source text of a node
TextOfNode(node) == Slice(decoded_bytes, node.start_byte, node.end_byte)

\* the node chosen as middle
Picked == captures_no_child[random_pick_i + 1]

\* C1: with fim_rate=1 and an eligible span, a false fim_spm_rate draw
\* (certain at rate 0) returns [prefix_sentinel] + enc(prefix) +
\* [suffix_sentinel] + enc(suffix) + [middle_sentinel] + enc(middle), and a
\* true draw (certain at rate 1) returns [prefix_sentinel, suffix_sentinel] +
\* enc(suffix) + [middle_sentinel] + enc(prefix) + enc(middle), each of the
\* three texts of the split encoded on its own.
C1_Ordering ==
    (pc = "done" /\ fim_rate = 100 /\ SplitReturned) =>
        /\ fim_spm_rate = 0 => spm = "psm"
        /\ fim_spm_rate = 100 => spm = "spm"
        /\ spm = "psm" =>
            ret = [kind |-> "list",
                   tokens |-> <<vocab[FIM_PREFIX]>> \o Encode(prefix_b)
                              \o <<vocab[FIM_SUFFIX]>> \o Encode(suffix_b)
                              \o <<vocab[FIM_MIDDLE]>> \o Encode(middle_b)]
        /\ spm = "spm" =>
            ret = [kind |-> "list",
                   tokens |-> <<vocab[FIM_PREFIX], vocab[FIM_SUFFIX]>>
                              \o Encode(suffix_b) \o <<vocab[FIM_MIDDLE]>>
                              \o Encode(prefix_b) \o Encode(middle_b)]

C1_Witness ==
    /\ pc = "done" /\ fim_rate = 100 /\ fim_spm_rate = 100 /\ spm = "spm"
    /\ prefix_b # <<>> /\ middle_b # <<>> /\ suffix_b # <<>>
    /\ Encode(prefix_b \o middle_b) # Encode(prefix_b) \o Encode(middle_b)

\* permute attempted FIM and the splitter found no eligible span
NoSpanOutcome ==
    /\ pc = "done" /\ raised = "none" /\ "split" \in calls
    /\ splittable_indices = <<>>

\* C2 as stated: when FIM is attempted and no span is eligible, permute
\* returns the original token sequence.
C2_Original == NoSpanOutcome => ret = [kind |-> "list", tokens |-> sample]

\* C2 as amended: when FIM is attempted and no span is eligible, permute
\* returns None in place of the token sequence.
C2_NoSpanReturnsNone ==
    NoSpanOutcome => ret = [kind |-> "None", tokens |-> <<>>]

C2_Witness ==
    /\ NoSpanOutcome
    /\ sample # <<>>
    /\ Captures(tree) # <<>>

\* C3 as stated: whichever of tokenizer.decode and get_prefix_middle_suffix
\* raises, permute returns normally with the original sample.
C3_Original ==
    raised # "none" =>
        pc = "done" /\ ret = [kind |-> "list", tokens |-> sample]

\* C3 as amended: an exception of get_prefix_middle_suffix is caught and
\* permute returns None in place of the token sequence; an exception of
\* tokenizer.decode leaves permute without a return value.
C3_SplitCaughtDecodeNot ==
    /\ raised = "split" =>
        pc = "done" /\ ret = [kind |-> "None", tokens |-> <<>>]
    /\ raised = "decode" => pc = "raised" /\ ret.kind = "pending"
    /\ pc = "raised" => raised = "decode"

C3_Witness ==
    /\ raised = "split" /\ pc = "done"
    /\ random_pick_i # None
    /\ sample # <<>>

\* C4: with fim_rate=0 permute returns the input token sequence unchanged
\* and calls neither decode nor the splitter nor encode.
C4_RateZeroPassthrough ==
    fim_rate = 0 =>
        /\ calls = {}
        /\ pc \in {"start", "done"}
        /\ pc = "done" => ret = [kind |-> "list", tokens |-> sample]

C4_Witness ==
    /\ fim_rate = 0 /\ pc = "done"
    /\ Len(sample) >= 2
    /\ Len(Decode(sample)) > Len(sample)
    /\ Captures(tree) # <<>>

\* the one eligible annotation reads ": T", stripping is disabled and the
\* split has returned
SingleColonSpace ==
    /\ SplitReturned /\ strip = "keep"
    /\ Len(captures_no_child) = 1
    /\ LET txt == TextOfNode(Picked)
       IN /\ Len(txt) >= 3
          /\ txt[1] = ":" /\ txt[2] = " " /\ txt[3] # " "

\* C5 as stated: middle = T and prefix + ": " + middle + suffix is the
\* original sample text.
C5_Original ==
    SingleColonSpace =>
        /\ middle_b = SubSeq(TextOfNode(Picked), 3, Len(TextOfNode(Picked)))
        /\ prefix_b \o <<":", " ">> \o middle_b \o suffix_b = decoded_bytes

\* C5 as amended: middle = T, the prefix is the text before the annotation
\* followed by ": ", and prefix + middle + suffix is the original sample
\* text.
C5_PrefixCarriesColon ==
    SingleColonSpace =>
        /\ middle_b = SubSeq(TextOfNode(Picked), 3, Len(TextOfNode(Picked)))
        /\ prefix_b = SubSeq(decoded_bytes, 1, Picked.start_byte)
                      \o <<":", " ">>
        /\ prefix_b \o middle_b \o suffix_b = decoded_bytes

C5_Witness ==
    /\ SingleColonSpace
    /\ Picked.start_byte > 0
    /\ suffix_b # <<>>
    /\ Len(Captures(tree)) > 1

\* the text between the end of capture i and the start of capture i + 1
\* (captures numbered from 1)
GapAfter(i) ==
    SubSeq(decoded_bytes, captures_no_child[i].end_byte + 1,
           captures_no_child[i + 1].start_byte)

\* the text after the end of capture i
RestAfter(i) ==
    SubSeq(decoded_bytes, captures_no_child[i].end_byte + 1,
           Len(decoded_bytes))

\* C6: with strip_suffix_rate=1 the suffix is the concatenation, in source
\* order, of the gaps from the selected span to the last eligible span and
\* of the text after the last eligible span; when the selected span is the
\* last one it is the text after the selected span.
C6_SuffixIsGaps ==
    (SplitReturned /\ strip_suffix_rate = 100) =>
        LET n == Len(captures_no_child)
            k == random_pick_i + 1
        IN /\ strip = "strip"
           /\ suffix_b = Concat([i \in 1..(n - k) |-> GapAfter(k + i - 1)])
                         \o RestAfter(n)
           /\ k = n => suffix_b = RestAfter(k)

C6_Witness ==
    /\ SplitReturned /\ strip_suffix_rate = 100
    /\ Len(captures_no_child) >= 3
    /\ random_pick_i = 0
    /\ GapAfter(1) # <<>>
    /\ RestAfter(Len(captures_no_child)) # <<>>
    /\ suffix_b # RestAfter(1)

\* node lies inside the byte range of another annotation node
NestedInAnnotation(node) ==
    \E i \in 1..Len(tree) :
        /\ tree[i].type \in AnnotationKinds
        /\ tree[i] # node
        /\ tree[i].start_byte <= node.start_byte
        /\ node.end_byte <= tree[i].end_byte

\* the text of node holds two slashes in a row
HasDoubleSlash(node) ==
    \E o \in node.start_byte..(node.end_byte - 2) :
        decoded_bytes[o + 1] = "/" /\ decoded_bytes[o + 2] = "/"

Eligible(node) == ~NestedInAnnotation(node) /\ ~HasDoubleSlash(node)

\* C7: the candidate set is exactly the captures that are not nested in an
\* annotation and hold no "//"; the span chosen as middle is one of them;
\* a sample without such a capture yields no eligible span.
C7_EligibleExactly ==
    /\ FilterRan =>
        /\ captures_no_child = SelectSeq(Captures(tree), Eligible)
        /\ (\A i \in 1..Len(Captures(tree)) : ~Eligible(Captures(tree)[i]))
            => pc = "done" /\ ret.kind = "None"
    /\ random_pick_i # None =>
        /\ random_pick_i \in 0..(Len(captures_no_child) - 1)
        /\ Eligible(Picked)

C7_Witness ==
    /\ random_pick_i # None
    /\ \E i \in 1..Len(Captures(tree)) :
        NestedInAnnotation(Captures(tree)[i])
    /\ \E i \in 1..Len(Captures(tree)) : HasDoubleSlash(Captures(tree)[i])
    /\ Len(captures_no_child) >= 2

\* the types were stripped from the suffix
Stripped == SplitReturned /\ strip = "strip"

\* C8 as stated: with the types stripped, the suffix holds no occurrence of
\* the source text of any eligible span other than the selected one.
C8_Original ==
    Stripped =>
        \A i \in 1..Len(captures_no_child) :
            i # random_pick_i + 1 =>
                ~Contains(suffix_b, TextOfNode(captures_no_child[i]))

\* C8 as amended: with the types stripped, the suffix is made of bytes of
\* the sample, in source order, none of which lies inside the byte range of
\* an eligible span.
C8_NoByteOfASpan ==
    Stripped =>
        /\ suffix_b = [j \in 1..Len(suffix_src) |->
                            decoded_bytes[suffix_src[j] + 1]]
        /\ \A j \in 1..(Len(suffix_src) - 1) :
                suffix_src[j] < suffix_src[j + 1]
        /\ \A j \in 1..Len(suffix_src) :
                \A i \in 1..Len(captures_no_child) :
                    ~(/\ captures_no_child[i].start_byte <= suffix_src[j]
                      /\ suffix_src[j] < captures_no_child[i].end_byte)

C8_Witness ==
    /\ Stripped
    /\ Len(captures_no_child) >= 2
    /\ \E i \in 1..Len(captures_no_child) :
        /\ i # random_pick_i + 1
        /\ Contains(suffix_b, TextOfNode(captures_no_child[i]))

\* C9: get_fim_token_ids returns four resolved ids when the vocabulary has
\* all four sentinel names and four None values otherwise, never a mix.
C9_AllOrNothing ==
    pc = "resolved" =>
        IF FimNames \subseteq DOMAIN vocab
        THEN tok_ids = <<vocab["<fim_suffix>"], vocab["<fim_prefix>"],
                         vocab["<fim_middle>"], vocab["<fim_pad>"]>>
        ELSE \A i \in 1..4 : tok_ids[i] = None

C9_Witness ==
    /\ pc = "resolved"
    /\ Cardinality(DOMAIN vocab) = 3
    /\ "<fim_suffix>" \in DOMAIN vocab
    /\ tok_ids = <<None, None, None, None>>

\* C10: captures_no_child is strictly increasing in byte offset and its
\* spans do not overlap: each ends no later than the next one starts.
C10_SortedDisjoint ==
    \A i \in 1..(Len(captures_no_child) - 1) :
        /\ captures_no_child[i].start_byte
            < captures_no_child[i + 1].start_byte
        /\ captures_no_child[i].end_byte
            <= captures_no_child[i + 1].start_byte

C10_Witness ==
    /\ Len(captures_no_child) >= 3
    /\ Len(Captures(tree)) > Len(captures_no_child)
    /\ strip = "strip"

====
